---- MODULE Spec2Model ----
(***************************************************************************)
(* Model of the `uuid` command-line tool (src/src/bin/uuid/main.rs).       *)
(*                                                                         *)
(* Text is a sequence of one-character strings.  A Uuid is a tuple of 16   *)
(* bytes.  A u64 is a tuple of 8 bytes, most significant first, because    *)
(* the values exceed the integers the model checker computes with.         *)
(* Option<T> is the empty tuple (None) or the one-element tuple <<v>>.      *)
(***************************************************************************)
EXTENDS Integers, Sequences, FiniteSets, TLC

\* ------------------------------------------------------------------ bounds
\* How many sample uuids, counters, tick values, node ids and clock readings
\* the inputs are drawn from.
NUuid == 8
NCounter == 4
NTicks == 3
NMac == 2
NNow == 3

\* ------------------------------------------------------------ Option<T>
None == <<>>

Some(v) == <<v>>

IsSome(o) == o /= None

\* Option::unwrap on a value known to be Some
Unwrap(o) == o[1]

\* ------------------------------------------------------------------ text
HexLower == <<"0","1","2","3","4","5","6","7","8","9","a","b","c","d","e","f">>

HexUpper == <<"0","1","2","3","4","5","6","7","8","9","A","B","C","D","E","F">>

UrnPrefix == <<"u","r","n",":","u","u","i","d",":">>

\* s.starts_with(p)
starts_with(s, p) == Len(s) >= Len(p) /\ SubSeq(s, 1, Len(p)) = p

\* s.ends_with(c), c one character
ends_with(s, c) == Len(s) >= 1 /\ s[Len(s)] = c

\* Two lower-case hex digits of one byte, as the uuid adapters write it.
HexByte(b) == <<HexLower[(b \div 16) + 1], HexLower[(b % 16) + 1]>>

RECURSIVE HexBytes(_, _, _)
\* The hex digits of bytes u[from..to].
HexBytes(u, from, to) ==
    IF from > to THEN <<>> ELSE HexByte(u[from]) \o HexBytes(u, from + 1, to)

\* uuid::adapter::Simple : 32 lower-case hex digits
Simple_from_uuid(u) == HexBytes(u, 1, 16)

\* uuid::adapter::Hyphenated : 8-4-4-4-12
Hyphenated_from_uuid(u) ==
    HexBytes(u, 1, 4) \o <<"-">> \o HexBytes(u, 5, 6) \o <<"-">> \o
    HexBytes(u, 7, 8) \o <<"-">> \o HexBytes(u, 9, 10) \o <<"-">> \o
    HexBytes(u, 11, 16)

\* uuid::adapter::Urn : urn:uuid: followed by the hyphenated form
Urn_from_uuid(u) == UrnPrefix \o Hyphenated_from_uuid(u)

\* ------------------------------------------------------- Uuid::parse_str
\* The value of one hex digit (the three match arms of the parser), or -1.
HexValue(c) ==
    IF \E i \in 1..16 : HexLower[i] = c
    THEN (CHOOSE i \in 1..16 : HexLower[i] = c) - 1
    ELSE IF \E i \in 11..16 : HexUpper[i] = c
         THEN (CHOOSE i \in 11..16 : HexUpper[i] = c) - 1
         ELSE -1

ACC_GROUP_LENS == <<8, 12, 16, 20, 32>>

SimpleLength == 32

HyphenatedLength == 36

UrnLength == 45

Ok(v) == [ok |-> TRUE, value |-> v, err |-> "None"]

Err(e) == [ok |-> FALSE, value |-> <<>>, err |-> e]

ZeroBytes(n) == [i \in 1..n |-> 0]

RECURSIVE ParseLoop(_, _, _, _, _, _)
\* The parser's loop over the characters of input from index i on, with its
\* locals digit, group, acc and buffer; then the check of the last group.
ParseLoop(input, i, digit, group, acc, buffer) ==
    IF i > Len(input)
    THEN IF ACC_GROUP_LENS[5] /= digit
         THEN Err("InvalidGroupLength")
         ELSE Ok(buffer)
    ELSE IF digit >= SimpleLength /\ group /= 4
    THEN IF group = 0 THEN Err("InvalidLength") ELSE Err("InvalidGroupCount")
    ELSE LET chr == input[i]
             v == HexValue(chr)
         IN IF digit % 2 = 0
            THEN IF v >= 0
                 THEN ParseLoop(input, i + 1, digit + 1, group, v, buffer)
                 ELSE IF chr = "-"
                 THEN IF ACC_GROUP_LENS[group + 1] /= digit
                      THEN Err("InvalidGroupLength")
                      ELSE ParseLoop(input, i + 1, digit, group + 1, acc, buffer)
                 ELSE Err("InvalidCharacter")
            ELSE IF v >= 0
                 THEN ParseLoop(input, i + 1, digit + 1, group, acc * 16 + v,
                                [buffer EXCEPT ![(digit \div 2) + 1] = acc * 16 + v])
                 ELSE IF chr = "-"
                 THEN Err("InvalidGroupLength")
                 ELSE Err("InvalidCharacter")

\* Uuid::parse_str, which str::parse::<Uuid>() calls.
Uuid_parse_str(input) ==
    IF Len(input) = UrnLength /\ starts_with(input, UrnPrefix)
    THEN ParseLoop(SubSeq(input, 10, Len(input)), 1, 0, 0, 0, ZeroBytes(16))
    ELSE IF Len(input) \notin {HyphenatedLength, SimpleLength}
    THEN Err("InvalidLength")
    ELSE ParseLoop(input, 1, 0, 0, 0, ZeroBytes(16))

\* The range of lengths whose braces are stripped.
BraceMin == 34

BraceMax == 38

\* Faulty variant of parse_uuid: the range of stripped lengths ends one short.
parse_uuid_short_range(s) ==
    LET t == IF Len(s) \in BraceMin..(BraceMax - 1) /\ starts_with(s, <<"{">>) /\ ends_with(s, "}")
             THEN SubSeq(s, 2, Len(s) - 1)
             ELSE s
    IN Uuid_parse_str(t)

\* Faulty variant of parse_uuid: the braces are never stripped.
parse_uuid_no_strip(s) == Uuid_parse_str(s)

\* fn parse_uuid(s: &str) -> Result<Uuid, uuid::Error>
parse_uuid(s) ==
    LET t == IF Len(s) \in BraceMin..BraceMax /\ starts_with(s, <<"{">>) /\ ends_with(s, "}")
             THEN SubSeq(s, 2, Len(s) - 1)
             ELSE s
    IN Uuid_parse_str(t)

\* ------------------------------------------------------------ u64 values
\* A u64 from a natural number below 2^31.
U64FromNat(n) ==
    <<0, 0, 0, 0, (n \div 16777216) % 256, (n \div 65536) % 256, (n \div 256) % 256, n % 256>>

RECURSIVE MulCarry(_, _, _)
\* The carry into byte i of t * k (k at most 10000, so no product overflows).
MulCarry(t, k, i) ==
    IF i = 8 THEN 0 ELSE (t[i + 1] * k + MulCarry(t, k, i + 1)) \div 256

\* u64 multiplication by a small constant, wrapping at 2^64.
U64Mul(t, k) == [i \in 1..8 |-> (t[i] * k + MulCarry(t, k, i)) % 256]

RECURSIVE AddCarry(_, _, _)
AddCarry(a, b, i) ==
    IF i = 8 THEN 0 ELSE (a[i + 1] + b[i + 1] + AddCarry(a, b, i + 1)) \div 256

\* u64 addition, wrapping at 2^64.
U64Add(a, b) == [i \in 1..8 |-> (a[i] + b[i] + AddCarry(a, b, i)) % 256]

\* fn ticks_from_timestamp(time: SystemTime) -> u64, for a time at or after
\* the Unix epoch: seconds * 10000000 + subsec_nanos / 100.  The factor
\* 10000000 is applied as 10000 * 1000.
ticks_from_timestamp(time) ==
    U64Add(U64Mul(U64Mul(U64FromNat(time.seconds), 10000), 1000),
           U64FromNat(time.subsec_nanos \div 100))

\* ------------------------------------------------------------ Uuid values
Uuid_nil == ZeroBytes(16)

\* Uuid::get_version : the high nibble of byte 6
Uuid_get_version(u) ==
    LET n == u[7] \div 16
    IN CASE n = 0 -> Some("Nil")
         [] n = 1 -> Some("Mac")
         [] n = 2 -> Some("Dce")
         [] n = 3 -> Some("Md5")
         [] n = 4 -> Some("Random")
         [] n = 5 -> Some("Sha1")
         [] OTHER -> None

\* Uuid::get_variant : the top bits of byte 8
Uuid_get_variant(u) ==
    LET x == u[9]
    IN CASE x \div 128 = 0 -> Some("NCS")
         [] x \div 64 = 2 -> Some("RFC4122")
         [] x \div 32 = 6 -> Some("Microsoft")
         [] x \div 32 = 7 -> Some("Future")
         [] OTHER -> None

\* Uuid::new_v4 from 16 random bytes: variant RFC4122, version 4
Uuid_new_v4(random_bytes) ==
    [random_bytes EXCEPT ![9] = (random_bytes[9] % 64) + 128,
                         ![7] = (random_bytes[7] % 16) + 64]

\* uuid::v1::Timestamp::from_rfc4122(ticks, counter)
Timestamp_from_rfc4122(ticks, counter) == [ticks |-> ticks, counter |-> counter]

\* Faulty variant of Uuid_new_v1: the counter's high byte is not masked to
\* six bits before the variant bits are set.
Uuid_new_v1_unmasked(ts, node_id) ==
    IF Len(node_id) /= 6
    THEN Err("InvalidNodeIdLength")
    ELSE LET t == ts.ticks
             c == ts.counter
             high == (c \div 256) % 256
         IN Ok(<<t[5], t[6], t[7], t[8],
                 t[3], t[4],
                 (t[1] % 16) + 16, t[2],
                 IF high >= 128 THEN high ELSE high + 128, c % 256>> \o node_id)

\* Uuid::new_v1(ts, node_id) : time_low, time_mid, time_high_and_version,
\* clock sequence with the variant bits, node.
Uuid_new_v1(ts, node_id) ==
    IF Len(node_id) /= 6
    THEN Err("InvalidNodeIdLength")
    ELSE LET t == ts.ticks
             c == ts.counter
         IN Ok(<<t[5], t[6], t[7], t[8],
                 t[3], t[4],
                 (t[1] % 16) + 16, t[2],
                 ((c \div 256) % 64) + 128, c % 256>> \o node_id)

\* Uuid::to_timestamp : Some only for a version 1 uuid
Uuid_to_timestamp(u) ==
    IF Uuid_get_version(u) /= Some("Mac")
    THEN None
    ELSE Some(Timestamp_from_rfc4122(
                <<u[7] % 16, u[8], u[5], u[6], u[1], u[2], u[3], u[4]>>,
                (u[9] % 64) * 256 + u[10]))

\* Timestamp::to_rfc4122
Timestamp_to_rfc4122(ts) == <<ts.ticks, ts.counter>>

\* impl fmt::Display for VersionDesc
VersionDesc(v) ==
    CASE v = Some("Nil") -> "Nil"
      [] v = Some("Mac") -> "v1 MAC Address"
      [] v = Some("Dce") -> "v2 DCE"
      [] v = Some("Md5") -> "v3 MD5"
      [] v = Some("Random") -> "v4 Random"
      [] v = Some("Sha1") -> "v5 SHA-1"
      [] v = None -> "Unknown"

\* impl fmt::Display for VariantDesc
VariantDesc(v) ==
    CASE v = Some("NCS") -> "NCS"
      [] v = Some("RFC4122") -> "RFC4122"
      [] v = Some("Microsoft") -> "Microsoft"
      [] v = Some("Future") -> "Reserved"
      [] v = None -> "Unknown"

\* ------------------------------------------------------------ the inputs
Versions == {"Nil", "Mac", "Dce", "Md5", "Random", "Sha1"}

Formats == {"Simple", "Hyphenated", "Urn", "Microsoft"}

\* Sample uuids: the first is all zeros; the version nibble runs through
\* 0, 1, 2, ... and the variant bits through all eight patterns.
UuidSample(i) ==
    [k \in 1..16 |->
        CASE k = 7 -> ((i - 1) % 16) * 16 + (((i - 1) * 11) % 16)
          [] k = 9 -> (((i - 1) * 3) % 8) * 32 + (((i - 1) * 13) % 32)
          [] OTHER -> ((i - 1) * (16 * k + 7 + k * k)) % 256]

UuidSamples == {UuidSample(i) : i \in 1..NUuid}

CounterValues == <<0, 4660, 16384, 65535, 16383, 49153, 255, 256>>

\* Sample u16 counters, below and above 2^14.
CounterSamples == {CounterValues[((i - 1) % Len(CounterValues)) + 1] : i \in 1..NCounter}

TickValues ==
    << <<0, 0, 0, 0, 0, 0, 0, 0>>,
       <<1, 35, 69, 103, 137, 171, 205, 239>>,
       <<241, 35, 69, 103, 137, 171, 205, 239>>,
       <<15, 255, 255, 255, 255, 255, 255, 255>>,
       <<255, 255, 255, 255, 255, 255, 255, 255>>,
       <<16, 0, 0, 0, 0, 0, 0, 0>> >>

\* Sample u64 tick values, below and above 2^60.
TickSamples == {TickValues[((i - 1) % Len(TickValues)) + 1] : i \in 1..NTicks}

\* Sample node ids given with --mac-address; the first is 00:00:00:00:00:00.
MacSample(i) == [k \in 1..6 |-> ((i - 1) * (40 * k + 15)) % 256]

MacSamples == {MacSample(i) : i \in 1..NMac}

\* The address of the interface named by --mac-interface, when it has one,
\* and of the interface get_mac_address() finds, when there is one.
NamedInterfaceMac == <<2, 0, 0, 0, 0, 1>>

DefaultInterfaceMac == <<2, 0, 0, 0, 0, 2>>

NowValues ==
    << [before_epoch |-> FALSE, seconds |-> 0, subsec_nanos |-> 0],
       [before_epoch |-> FALSE, seconds |-> 1762387200, subsec_nanos |-> 123456789],
       [before_epoch |-> TRUE, seconds |-> 0, subsec_nanos |-> 0],
       [before_epoch |-> FALSE, seconds |-> 2147483647, subsec_nanos |-> 999999999],
       [before_epoch |-> FALSE, seconds |-> 1, subsec_nanos |-> 99] >>

\* Readings of SystemTime::now().
NowSamples == {NowValues[((i - 1) % Len(NowValues)) + 1] : i \in 1..NNow}

\* What mac_address_by_name / get_mac_address can answer:
\* Err(_), Ok(None), Ok(Some(mac)).
LookupResults(mac) ==
    { [status |-> "Err", mac |-> <<>>], [status |-> "None", mac |-> <<>>],
      [status |-> "Some", mac |-> mac] }

\* s with its hex letters in upper case.
Upper(s) ==
    [i \in 1..Len(s) |-> IF HexValue(s[i]) >= 10 THEN HexUpper[HexValue(s[i]) + 1] ELSE s[i]]

Braced(s) == <<"{">> \o s \o <<"}">>

ArgShapes ==
    { "simple", "hyphenated", "urn", "ms", "upper",
      "braced_simple", "braced_urn", "braced_31", "braced_37", "braced_35",
      "braced_34", "braced_30", "short", "nonhex", "unclosed", "braced_nonhex" }

\* An argument text built from uuid u: the four forms the tool writes, their
\* upper-case spelling, and malformed texts with and without braces.
ArgText(u, shape) ==
    LET h == Hyphenated_from_uuid(u)
        x == Simple_from_uuid(u)
    IN CASE shape = "simple" -> x
         [] shape = "hyphenated" -> h
         [] shape = "urn" -> Urn_from_uuid(u)
         [] shape = "ms" -> Braced(h)
         [] shape = "upper" -> Upper(h)
         [] shape = "braced_simple" -> Braced(x)
         [] shape = "braced_urn" -> Braced(Urn_from_uuid(u))
         [] shape = "braced_31" -> Braced(SubSeq(x, 1, 31))
         [] shape = "braced_37" -> Braced(h \o <<"0">>)
         [] shape = "braced_35" -> Braced(SubSeq(h, 1, 35))
         [] shape = "braced_34" -> Braced(x \o <<"0", "0">>)
         [] shape = "braced_30" -> Braced(SubSeq(x, 1, 30))
         [] shape = "short" -> SubSeq(h, 1, 35)
         [] shape = "nonhex" -> [h EXCEPT ![3] = "g"]
         [] shape = "unclosed" -> <<"{">> \o h
         [] shape = "braced_nonhex" -> Braced([h EXCEPT ![9] = "0"])

ArgTexts == {ArgText(u, shape) : u \in UuidSamples, shape \in ArgShapes}

Optional(S) == {None} \cup {Some(v) : v \in S}

\* ------------------------------------------------------------- the state
VARIABLES
    argv,       \* the command line: the <uuid> text and the option values
    options,    \* struct Opt, as Opt::from_args() returns it
    uuid,       \* the local `uuid` of main, None until it is bound
    gen,        \* the locals of the Mac arm: now, ticks, counter, node_id
    lookups,    \* the hardware-address queries made, in order
    stdout,     \* the lines written to the primary stream
    stderr,     \* the lines written to the diagnostic stream
    exit_code,  \* the process's exit status, -1 while it runs
    pc          \* the position in main

vars == <<argv, options, uuid, gen, lookups, stdout, stderr, exit_code, pc>>

NoGen == [now |-> None, ticks |-> None, counter |-> None, node_id |-> None]

\* The generation options, used only by the Mac arm.
GenOptions ==
    [counter : Optional(CounterSamples), timestamp_ticks : Optional(TickSamples),
     mac_address : Optional(MacSamples), mac_interface : Optional({"eth0"})]

NoGenOptions ==
    [counter |-> None, timestamp_ticks |-> None, mac_address |-> None, mac_interface |-> None]

AllGenOptions ==
    [counter |-> Some(CounterValues[2]), timestamp_ticks |-> Some(TickValues[2]),
     mac_address |-> Some(MacSample(2)), mac_interface |-> Some("eth0")]

\* Command lines: every <uuid> text or none, every version and format.  The
\* generation options, which only the Mac arm reads, take every combination
\* when that arm is taken and are all absent or all present otherwise.
Init ==
    /\ \E text \in Optional(ArgTexts), vm \in Optional(Versions), fmt \in Optional(Formats),
          g \in GenOptions :
          /\ (IsSome(text) \/ vm /= Some("Mac")) => g \in {NoGenOptions, AllGenOptions}
          /\ argv = [uuid |-> text, version_mode |-> vm, output_format |-> fmt,
                     counter |-> g.counter, timestamp_ticks |-> g.timestamp_ticks,
                     mac_address |-> g.mac_address, mac_interface |-> g.mac_interface]
    /\ options = None
    /\ uuid = None
    /\ gen = NoGen
    /\ lookups = <<>>
    /\ stdout = <<>>
    /\ stderr = <<>>
    /\ exit_code = -1
    /\ pc = "from_args"

\* ---------------------------------------------------------- output lines
ErrorLine(msg) == [kind |-> "error", text |-> msg]

PanicLine(msg) == [kind |-> "panic", text |-> msg]

\* process::exit(code) after the lines `err` and `out` are written.
Exit(code, err, out) ==
    /\ stderr' = stderr \o err
    /\ stdout' = stdout \o out
    /\ exit_code' = code
    /\ pc' = "done"

\* A panic: the message on stderr, exit status 101.
Panic(msg) == Exit(101, <<PanicLine(msg)>>, <<>>)

\* ------------------------------------------------------ Opt::from_args()
\* The <uuid> argument goes through parse_uuid; a text it rejects ends the
\* run with the usage error.
FromArgs ==
    /\ pc = "from_args"
    /\ IF IsSome(argv.uuid)
       THEN LET r == parse_uuid(Unwrap(argv.uuid))
            IN IF r.ok
               THEN /\ options' = Some([argv EXCEPT !.uuid = Some(r.value)])
                    /\ pc' = "select"
                    /\ UNCHANGED <<stdout, stderr, exit_code>>
               ELSE /\ options' = None
                    /\ Exit(1, <<ErrorLine("error: Invalid value for '<uuid>'")>>, <<>>)
       ELSE /\ options' = Some(argv)
            /\ pc' = "select"
            /\ UNCHANGED <<stdout, stderr, exit_code>>
    /\ UNCHANGED <<argv, uuid, gen, lookups>>

Opt == Unwrap(options)

\* --------------------------------------------------- main, lines 196-205
\* The test of lines 197-200: a version was requested, the supplied uuid
\* decodes to a known version, and the two differ.
VersionMismatch(opts, u) ==
    /\ IsSome(opts.version_mode)
    /\ IsSome(Uuid_get_version(u))
    /\ Unwrap(opts.version_mode) /= Unwrap(Uuid_get_version(u))

\* A uuid was supplied: reject it on a version mismatch, else bind it.
Inspect ==
    /\ pc = "select"
    /\ IsSome(Opt.uuid)
    /\ IF VersionMismatch(Opt, Unwrap(Opt.uuid))
       THEN /\ Exit(1, <<ErrorLine("error: Provided <uuid> did not match --version-mode")>>, <<>>)
            /\ UNCHANGED uuid
       ELSE /\ uuid' = Opt.uuid
            /\ pc' = "describe"
            /\ UNCHANGED <<stdout, stderr, exit_code>>
    /\ UNCHANGED <<argv, options, gen, lookups>>

\* --------------------------------------------------- main, lines 206-246
\* Faulty variant of GenerationArm: the wildcard arm generates a random uuid.
GenerationArm_wildcard_random(vm) ==
    CASE vm = Some("Nil") -> "nil"
      [] vm = Some("Mac") -> "mac"
      [] OTHER -> "random"

\* The arm of `match options.version_mode` that is taken.
GenerationArm(vm) ==
    CASE vm = Some("Nil") -> "nil"
      [] vm = Some("Mac") -> "mac"
      [] vm = Some("Random") \/ vm = None -> "random"
      [] OTHER -> "unsupported"

Generating(arm) ==
    /\ pc = "select"
    /\ ~IsSome(Opt.uuid)
    /\ GenerationArm(Opt.version_mode) = arm

GenerateNil ==
    /\ Generating("nil")
    /\ uuid' = Some(Uuid_nil)
    /\ pc' = "describe"
    /\ UNCHANGED <<argv, options, gen, lookups, stdout, stderr, exit_code>>

\* Uuid::new_v4() over the bytes the random generator yields.
GenerateRandom ==
    /\ Generating("random")
    /\ \E random_bytes \in UuidSamples : uuid' = Some(Uuid_new_v4(random_bytes))
    /\ pc' = "describe"
    /\ UNCHANGED <<argv, options, gen, lookups, stdout, stderr, exit_code>>

\* The wildcard arm: println! of the message, exit(1).
GenerateUnsupported ==
    /\ Generating("unsupported")
    /\ Exit(1, <<>>, <<ErrorLine("error: Only 0, 1, and 4 are supported for '--version <version-mode>' without a provided <uuid>")>>)
    /\ UNCHANGED <<argv, options, uuid, gen, lookups>>

\* Lines 210-213: the given ticks, else those of the clock reading `now`.
SelectTicks(opts, now) ==
    IF IsSome(opts.timestamp_ticks)
    THEN Unwrap(opts.timestamp_ticks)
    ELSE ticks_from_timestamp(now)

\* Faulty variant of SelectCounter: the given counter is ignored.
SelectCounter_ignores_option(opts, random) == random

\* Line 215: the given counter, else the random one.
SelectCounter(opts, random) ==
    IF IsSome(opts.counter) THEN Unwrap(opts.counter) ELSE random

ByName(interface, answer) ==
    [call |-> "mac_address_by_name", interface |-> interface, status |-> answer.status]

ByDefault(answer) ==
    [call |-> "get_mac_address", interface |-> "", status |-> answer.status]

Resolved(node_id, calls) ==
    [outcome |-> "ok", node_id |-> node_id, lookups |-> calls, text |-> ""]

Failed(outcome, calls, text) ==
    [outcome |-> outcome, node_id |-> <<>>, lookups |-> calls, text |-> text]

\* Faulty variant of ResolveNodeId: a named interface without an address
\* falls back to the default interface.
ResolveNodeId_falls_back(opts, by_name, by_default) ==
    IF IsSome(opts.mac_address)
    THEN Resolved(Unwrap(opts.mac_address), <<>>)
    ELSE LET named == IF IsSome(opts.mac_interface)
                      THEN <<ByName(Unwrap(opts.mac_interface), by_name)>>
                      ELSE <<>>
             calls == named \o <<ByDefault(by_default)>>
         IN IF IsSome(opts.mac_interface) /\ by_name.status = "Some"
            THEN Resolved(by_name.mac, named)
            ELSE IF IsSome(opts.mac_interface) /\ by_name.status = "Err"
            THEN Failed("panic", named, "Could not get mac address for interface")
            ELSE CASE by_default.status = "Some" -> Resolved(by_default.mac, calls)
                   [] by_default.status = "None" -> Failed("panic", calls, "No mac address found")
                   [] by_default.status = "Err" -> Failed("panic", calls, "Could not get mac address")

\* Lines 219-236: the node id, where by_name and by_default are what
\* mac_address_by_name and get_mac_address answer if they are called.
ResolveNodeId(opts, by_name, by_default) ==
    IF IsSome(opts.mac_address)
    THEN Resolved(Unwrap(opts.mac_address), <<>>)
    ELSE IF IsSome(opts.mac_interface)
    THEN LET calls == <<ByName(Unwrap(opts.mac_interface), by_name)>>
         IN CASE by_name.status = "Some" -> Resolved(by_name.mac, calls)
              [] by_name.status = "None" ->
                    Failed("exit", calls, "error: MAC address could not be obtained for --mac-interface")
              [] by_name.status = "Err" ->
                    Failed("panic", calls, "Could not get mac address for interface")
    ELSE LET calls == <<ByDefault(by_default)>>
         IN CASE by_default.status = "Some" -> Resolved(by_default.mac, calls)
              [] by_default.status = "None" -> Failed("panic", calls, "No mac address found")
              [] by_default.status = "Err" -> Failed("panic", calls, "Could not get mac address")

\* What the environment can supply to the Mac arm.  A value the arm does not
\* use (the clock when the ticks are given, the random counter when the
\* counter is given, an interface that is not queried) is drawn from a
\* single placeholder, as it cannot change the outcome.
ClockReadings(opts) ==
    IF IsSome(opts.timestamp_ticks) THEN {NowValues[1]} ELSE NowSamples

RandomDraws(opts) ==
    IF IsSome(opts.counter) THEN {CounterValues[1]} ELSE CounterSamples

NameAnswers(opts) ==
    IF ~IsSome(opts.mac_address) /\ IsSome(opts.mac_interface)
    THEN LookupResults(NamedInterfaceMac)
    ELSE {[status |-> "None", mac |-> <<>>]}

DefaultAnswers(opts) ==
    IF ~IsSome(opts.mac_address) /\ ~IsSome(opts.mac_interface)
    THEN LookupResults(DefaultInterfaceMac)
    ELSE {[status |-> "None", mac |-> <<>>]}

\* The Mac arm, lines 209-239.
GenerateMac ==
    /\ Generating("mac")
    /\ \E now \in ClockReadings(Opt), random \in RandomDraws(Opt),
          by_name \in NameAnswers(Opt), by_default \in DefaultAnswers(Opt) :
          LET reads_clock == ~IsSome(Opt.timestamp_ticks)
              read == IF reads_clock THEN Some(now) ELSE None
          IN IF reads_clock /\ now.before_epoch
             THEN /\ Panic("Could not get duration since unix epoch")
                  /\ gen' = [NoGen EXCEPT !.now = read]
                  /\ UNCHANGED <<uuid, lookups>>
             ELSE LET ticks == SelectTicks(Opt, now)
                      counter == SelectCounter(Opt, random)
                      ts == Timestamp_from_rfc4122(ticks, counter)
                      r == ResolveNodeId(Opt, by_name, by_default)
                      built == Uuid_new_v1(ts, r.node_id)
                  IN /\ lookups' = lookups \o r.lookups
                     /\ CASE r.outcome = "exit" ->
                                /\ Exit(1, <<ErrorLine(r.text)>>, <<>>)
                                /\ gen' = [now |-> read, ticks |-> Some(ticks),
                                           counter |-> Some(counter), node_id |-> None]
                                /\ UNCHANGED uuid
                          [] r.outcome = "panic" ->
                                /\ Panic(r.text)
                                /\ gen' = [now |-> read, ticks |-> Some(ticks),
                                           counter |-> Some(counter), node_id |-> None]
                                /\ UNCHANGED uuid
                          [] r.outcome = "ok" /\ ~built.ok ->
                                /\ Panic("could not build uuid")
                                /\ gen' = [now |-> read, ticks |-> Some(ticks),
                                           counter |-> Some(counter), node_id |-> Some(r.node_id)]
                                /\ UNCHANGED uuid
                          [] r.outcome = "ok" /\ built.ok ->
                                /\ uuid' = Some(built.value)
                                /\ gen' = [now |-> read, ticks |-> Some(ticks),
                                           counter |-> Some(counter), node_id |-> Some(r.node_id)]
                                /\ pc' = "describe"
                                /\ UNCHANGED <<stdout, stderr, exit_code>>
    /\ UNCHANGED <<argv, options>>

\* --------------------------------------------------- main, lines 248-252
DescLine(u) ==
    [kind |-> "desc", version |-> VersionDesc(Uuid_get_version(u)),
     variant |-> VariantDesc(Uuid_get_variant(u))]

Describe ==
    /\ pc = "describe"
    /\ stderr' = Append(stderr, DescLine(Unwrap(uuid)))
    /\ pc' = "timestamp"
    /\ UNCHANGED <<argv, options, uuid, gen, lookups, stdout, exit_code>>

\* --------------------------------------------------- main, lines 254-271
\* Faulty variant of ReportsTimestamp: both time-based versions are reported.
ReportsTimestamp_time_based(u) == Uuid_get_version(u) \in {Some("Mac"), Some("Dce")}

\* The arm `Some(uuid::Version::Mac)` of the match of line 254.
ReportsTimestamp(u) == Uuid_get_version(u) = Some("Mac")

\* Lines 256-267: what the timestamp line shows.
TimestampLine(u) ==
    LET ts == Uuid_to_timestamp(u)
        pair == IF IsSome(ts) THEN Timestamp_to_rfc4122(Unwrap(ts))
                ELSE <<ZeroBytes(8), 0>>
    IN [kind |-> "timestamp", timestamp_ticks |-> pair[1], counter |-> pair[2],
        node_id |-> SubSeq(u, 11, 16)]

ReportTimestamp ==
    /\ pc = "timestamp"
    /\ stderr' = IF ReportsTimestamp(Unwrap(uuid))
                 THEN Append(stderr, TimestampLine(Unwrap(uuid)))
                 ELSE stderr
    /\ pc' = "print"
    /\ UNCHANGED <<argv, options, uuid, gen, lookups, stdout, exit_code>>

\* --------------------------------------------------- main, lines 273-280
\* The text println! writes for each output format.
FormatOutput(u, output_format) ==
    CASE output_format = Some("Simple") -> Simple_from_uuid(u)
      [] output_format = Some("Urn") -> Urn_from_uuid(u)
      [] output_format = Some("Microsoft") -> <<"{">> \o Hyphenated_from_uuid(u) \o <<"}">>
      [] output_format = Some("Hyphenated") \/ output_format = None -> Hyphenated_from_uuid(u)

UuidLine(text) == [kind |-> "uuid", text |-> text]

\* The uuid on stdout, then main returns: exit status 0.
PrintUuid ==
    /\ pc = "print"
    /\ stdout' = Append(stdout, UuidLine(FormatOutput(Unwrap(uuid), Opt.output_format)))
    /\ exit_code' = 0
    /\ pc' = "done"
    /\ UNCHANGED <<argv, options, uuid, gen, lookups, stderr>>

Next ==
    \/ FromArgs
    \/ Inspect
    \/ GenerateNil
    \/ GenerateMac
    \/ GenerateRandom
    \/ GenerateUnsupported
    \/ Describe
    \/ ReportTimestamp
    \/ PrintUuid

Spec == Init /\ [][Next]_vars

\* ================================================================ claims
Done == pc = "done"

Succeeded == Done /\ exit_code = 0

\* Opt::from_args() has returned.
Parsed == IsSome(options)

Inspecting == Parsed /\ IsSome(Opt.uuid)

GeneratingArm(arm) == Parsed /\ ~IsSome(Opt.uuid) /\ GenerationArm(Opt.version_mode) = arm

HasKind(stream, kind) == \E i \in 1..Len(stream) : stream[i].kind = kind

\* The stream holds a message and nothing else of interest follows it.
EndsWithMessage(stream) ==
    Len(stream) >= 1 /\ stream[Len(stream)].kind \in {"error", "panic"}

\* The three error paths of main.
MismatchPath == Done /\ Inspecting /\ uuid = None

UnsupportedPath == Done /\ GeneratingArm("unsupported")

NodeIdFailurePath ==
    Done /\ GeneratingArm("mac") /\ IsSome(gen.ticks) /\ ~IsSome(gen.node_id)

\* C1: every run that ends on an error path (version mismatch, unsupported
\* generation version, node-id resolution failure) exits non-zero, has its
\* message on stderr and has written nothing to stdout.
C1_ErrorPathsWriteOnlyToStderr ==
    (MismatchPath \/ UnsupportedPath \/ NodeIdFailurePath) =>
        /\ exit_code \notin {-1, 0}
        /\ EndsWithMessage(stderr)
        /\ stdout = <<>>

\* C2: with a uuid and a requested version, the run succeeds and writes the
\* uuid only if the decoded version equals the requested one; for any other
\* decoded version, Unknown included, it exits non-zero and writes nothing.
C2_SuppliedVersionMustMatch ==
    (Done /\ Inspecting /\ IsSome(Opt.version_mode)) =>
        IF Uuid_get_version(Unwrap(Opt.uuid)) = Opt.version_mode
        THEN exit_code = 0 /\ HasKind(stdout, "uuid")
        ELSE exit_code \notin {-1, 0} /\ stdout = <<>>

\* C3: parse_uuid applied to the text main prints, in any of the four output
\* formats, succeeds and returns exactly the uuid that was printed.
C3_RoundTrip ==
    \A i \in 1..Len(stdout) :
        stdout[i].kind = "uuid" =>
            LET r == parse_uuid(stdout[i].text)
            IN r.ok /\ r.value = Unwrap(uuid)

C3_Witness ==
    /\ Succeeded
    /\ Opt.output_format = Some("Microsoft")
    /\ HasKind(stdout, "uuid")
    /\ Unwrap(uuid) /= Uuid_nil

HexDigitChars ==
    {"0","1","2","3","4","5","6","7","8","9",
     "a","b","c","d","e","f","A","B","C","D","E","F"}

\* s is the 8-4-4-4-12 form: 36 characters, hyphens at 9, 14, 19, 24.
IsHyphenatedForm(s) ==
    /\ Len(s) = 36
    /\ \A i \in 1..36 :
          IF i \in {9, 14, 19, 24} THEN s[i] = "-" ELSE s[i] \in HexDigitChars

\* s is the simple form: 32 hex digits.
IsSimpleForm(s) == Len(s) = 32 /\ \A i \in 1..32 : s[i] \in HexDigitChars

IsBraced(s) == Len(s) >= 2 /\ s[1] = "{" /\ s[Len(s)] = "}"

Inner(s) == SubSeq(s, 2, Len(s) - 1)

\* parse_uuid has been applied to a brace-wrapped <uuid> text.
BracedArgParsed == pc /= "from_args" /\ IsSome(argv.uuid) /\ IsBraced(Unwrap(argv.uuid))

\* C4 as claimed: a brace-wrapped text parses only when the text between the
\* braces is the hyphenated form; braces around the simple form fail.
C4_BracedOnlyHyphenated ==
    BracedArgParsed => (Parsed => IsHyphenatedForm(Inner(Unwrap(argv.uuid))))

\* C4 as amended: a brace-wrapped text parses exactly when the text between
\* the braces is the hyphenated form (total length 38) or the simple form
\* (total length 34), and then to the value of that inner text; every other
\* brace-wrapped text (total length 33 or 39, braces around the urn form)
\* is rejected.
C4_BracedHyphenatedOrSimple ==
    BracedArgParsed =>
        LET inner == Inner(Unwrap(argv.uuid))
        IN /\ Parsed <=> (IsHyphenatedForm(inner) \/ IsSimpleForm(inner))
           /\ Parsed => Opt.uuid = Some(Uuid_parse_str(inner).value)

C4_Witness ==
    /\ BracedArgParsed
    /\ Parsed
    /\ Len(Unwrap(argv.uuid)) = 34
    /\ Unwrap(Opt.uuid) /= Uuid_nil

\* The Mac arm has run and the diagnostics are written.
MacReported == GeneratingArm("mac") /\ pc \in {"print", "done"} /\ IsSome(uuid)

\* C5: Mac generation from explicit ticks t < 2^60, counter c < 2^14 and
\* mac address n yields version Mac, variant RFC4122, bytes 10..15 equal to
\* n, and the diagnostic line timestamp_ticks=t counter=c node_id=n.
C5_MacExplicitInputsLossless ==
    ( /\ MacReported
      /\ IsSome(Opt.timestamp_ticks) /\ Unwrap(Opt.timestamp_ticks)[1] < 16
      /\ IsSome(Opt.counter) /\ Unwrap(Opt.counter) < 16384
      /\ IsSome(Opt.mac_address) ) =>
        /\ Uuid_get_version(Unwrap(uuid)) = Some("Mac")
        /\ Uuid_get_variant(Unwrap(uuid)) = Some("RFC4122")
        /\ SubSeq(Unwrap(uuid), 11, 16) = Unwrap(Opt.mac_address)
        /\ Len(stderr) = 2
        /\ stderr[1].version = "v1 MAC Address" /\ stderr[1].variant = "RFC4122"
        /\ stderr[2].kind = "timestamp"
        /\ stderr[2].timestamp_ticks = Unwrap(Opt.timestamp_ticks)
        /\ stderr[2].counter = Unwrap(Opt.counter)
        /\ stderr[2].node_id = Unwrap(Opt.mac_address)

C5_Witness ==
    /\ MacReported /\ Done
    /\ Opt.timestamp_ticks = Some(TickValues[2])
    /\ Opt.counter = Some(CounterValues[2])
    /\ Opt.mac_address = Some(MacSample(2))

Generatable == {Some("Nil"), Some("Mac"), Some("Random"), None}

UnsupportedGeneratesNothing ==
    (Done /\ GeneratingArm("unsupported")) =>
        /\ uuid = None
        /\ ~HasKind(stderr, "desc")
        /\ exit_code \notin {-1, 0}

\* C6 as claimed: with no uuid argument the run succeeds exactly when the
\* requested version is Nil, Mac, Random or absent; for Dce, Md5 and Sha1 no
\* uuid is generated, no version/variant line is written, the exit is
\* non-zero.
C6_GenerationSucceedsIffSupported ==
    /\ (Done /\ Parsed /\ ~IsSome(Opt.uuid)) =>
          (exit_code = 0 <=> Opt.version_mode \in Generatable)
    /\ UnsupportedGeneratesNothing

\* C6 as amended: with no uuid argument the run succeeds exactly when the
\* requested version is Nil, Random or absent, or is Mac and the ticks and
\* the node id were obtained; for Dce, Md5 and Sha1 as claimed.
C6_GenerationSucceedsIffSupportedAndResolved ==
    /\ (Done /\ Parsed /\ ~IsSome(Opt.uuid)) =>
          (exit_code = 0 <=>
              \/ Opt.version_mode \in {Some("Nil"), Some("Random"), None}
              \/ Opt.version_mode = Some("Mac") /\ IsSome(gen.ticks) /\ IsSome(gen.node_id))
    /\ UnsupportedGeneratesNothing

C6_Witness == Done /\ GeneratingArm("unsupported") /\ Opt.version_mode = Some("Dce")

\* 0x01B21DD213814000: the 100 ns ticks from 1582-10-15 to 1970-01-01.
RFC4122_EPOCH_OFFSET == <<1, 178, 29, 210, 19, 129, 64, 0>>

\* C7: when timestamp_ticks is not supplied, the ticks used are
\* unix_seconds * 10_000_000 + unix_subsec_nanos / 100 + RFC4122_EPOCH_OFFSET.
C7_DefaultTicksCountFrom1582 ==
    (GeneratingArm("mac") /\ IsSome(gen.now) /\ IsSome(gen.ticks)) =>
        LET now == Unwrap(gen.now)
            unix == U64Add(U64Mul(U64Mul(U64FromNat(now.seconds), 10000), 1000),
                           U64FromNat(now.subsec_nanos \div 100))
        IN Unwrap(gen.ticks) = U64Add(unix, RFC4122_EPOCH_OFFSET)

\* C8: the version/variant line is on stderr before the uuid is written to
\* stdout, and on a successful run the timestamp line is written if and
\* only if the decoded version is Mac.
C8_DiagnosticsBeforeOutput ==
    /\ (pc = "print" \/ HasKind(stdout, "uuid")) =>
          Len(stderr) >= 1 /\ stderr[1].kind = "desc"
    /\ pc = "print" => stdout = <<>>
    /\ Succeeded =>
          /\ Len(stdout) = 1 /\ stdout[1].kind = "uuid"
          /\ IF Uuid_get_version(Unwrap(uuid)) = Some("Mac")
             THEN Len(stderr) = 2 /\ stderr[2].kind = "timestamp"
             ELSE Len(stderr) = 1

C8_Witness ==
    /\ Succeeded
    /\ Inspecting
    /\ Uuid_get_version(Unwrap(uuid)) = Some("Dce")
    /\ Len(stderr) = 1

\* The Mac arm has got as far as resolving the node id.
NodeIdAttempted == GeneratingArm("mac") /\ IsSome(gen.ticks)

FailedRun == Done /\ exit_code \notin {-1, 0} /\ uuid = None /\ stdout = <<>>

\* C9: an explicit mac-address is used and no interface is queried; else a
\* named interface is queried, its address used, and the run fails without
\* querying another interface if it has none; only with neither option is
\* the default interface queried, and the run fails if there is none.
C9_NodeIdPriority ==
    NodeIdAttempted =>
        CASE IsSome(Opt.mac_address) ->
                /\ lookups = <<>>
                /\ gen.node_id = Opt.mac_address
                /\ SubSeq(Unwrap(uuid), 11, 16) = Unwrap(Opt.mac_address)
          [] ~IsSome(Opt.mac_address) /\ IsSome(Opt.mac_interface) ->
                /\ Len(lookups) = 1
                /\ lookups[1].call = "mac_address_by_name"
                /\ lookups[1].interface = Unwrap(Opt.mac_interface)
                /\ IF lookups[1].status = "Some"
                   THEN /\ gen.node_id = Some(NamedInterfaceMac)
                        /\ SubSeq(Unwrap(uuid), 11, 16) = NamedInterfaceMac
                   ELSE FailedRun
          [] OTHER ->
                /\ Len(lookups) = 1
                /\ lookups[1].call = "get_mac_address"
                /\ IF lookups[1].status = "Some"
                   THEN /\ gen.node_id = Some(DefaultInterfaceMac)
                        /\ SubSeq(Unwrap(uuid), 11, 16) = DefaultInterfaceMac
                   ELSE FailedRun

C9_Witness ==
    /\ NodeIdAttempted
    /\ ~IsSome(Opt.mac_address) /\ IsSome(Opt.mac_interface)
    /\ Len(lookups) = 1 /\ lookups[1].status = "None"
    /\ FailedRun

\* C10: for any u16 counter and any u64 ticks the generated value has version
\* Mac and variant RFC4122, and the diagnostics report counter mod 2^14 and
\* ticks mod 2^60.
C10_CounterAndTicksAreMasked ==
    MacReported =>
        /\ Uuid_get_version(Unwrap(uuid)) = Some("Mac")
        /\ Uuid_get_variant(Unwrap(uuid)) = Some("RFC4122")
        /\ Len(stderr) = 2
        /\ stderr[1].version = "v1 MAC Address" /\ stderr[1].variant = "RFC4122"
        /\ stderr[2].kind = "timestamp"
        /\ stderr[2].counter = Unwrap(gen.counter) % 16384
        /\ stderr[2].timestamp_ticks =
              [Unwrap(gen.ticks) EXCEPT ![1] = Unwrap(gen.ticks)[1] % 16]

C10_Witness ==
    /\ MacReported /\ Done
    /\ IsSome(Opt.counter) /\ Unwrap(Opt.counter) >= 16384
    /\ IsSome(Opt.timestamp_ticks) /\ Unwrap(Opt.timestamp_ticks)[1] >= 16

====
